---- MODULE Spec2Model ----
(***************************************************************************)
(* A model of src/acl/ACLAnthology_downloader.py: the control flow of      *)
(* ACLAnthologyDownloader.download (one state per statement group, the     *)
(* Python locals as variables), the filesystem, the HTTP origin and the    *)
(* browser session it acts on, and the title sanitisation of download()    *)
(* and format_title().                                                     *)
(***************************************************************************)
EXTENDS Naturals, Sequences, FiniteSets, TLC

(* ---------------------------------------------------------------- bounds *)
\* Most entry blocks find_elements returns for the listing page (line 61).
MaxBlocks == 2
\* Most badge links one block holds (lines 73-76).
MaxBadges == 2
\* Most title links one block holds (lines 65-67).
MaxTitleElems == 1
\* Longest title, in characters, of the sanitisation specification.
MaxTitleLen == 3

(* ------------------------------------------------------------ characters *)
\* A character is a string naming it; a title is a sequence of characters.
\* U+FF0F is FULLWIDTH SOLIDUS, U+00E9 is e with acute, U+FB01 the ligature fi.
AsciiChars == {"/", "_", "a", "b", "c", "f", "i"}
Alphabet == {"/", "_", "a", "U+FF0F", "U+00E9", "U+FB01"}

\* unicodedata.normalize("NFKC", c) of one character (line 111).  None of the
\* characters of Alphabet is a combining mark, so NFKC acts on each alone.
NFKC(c) ==
    CASE c = "U+FF0F" -> <<"/">>
      [] c = "U+FB01" -> <<"f", "i">>
      [] OTHER -> <<c>>

RECURSIVE Normalize(_)
Normalize(s) == IF s = << >> THEN << >> ELSE NFKC(Head(s)) \o Normalize(Tail(s))

\* .encode("ascii", "ignore").decode("ascii") (line 111).
RECURSIVE AsciiIgnore(_)
AsciiIgnore(s) ==
    IF s = << >> THEN << >>
    ELSE (IF Head(s) \in AsciiChars THEN <<Head(s)>> ELSE << >>) \o AsciiIgnore(Tail(s))

\* format_title (lines 110-112).
format_title(t) == AsciiIgnore(Normalize(t))

\* The replacement of the title loop (lines 70-71).
ReplaceSlash(t) == [k \in 1..Len(t) |-> IF t[k] = "/" THEN "_" ELSE t[k]]

Contains(s, c) == \E k \in 1..Len(s) : s[k] = c

(* ---------------------------------------------------------------- inputs *)
\* Title texts the listing page may show.
Titles == {<<"a">>, <<"b", "/", "c">>}
\* PDF links: Path(url).stem keeps the last segment without its suffix.
Urls == {[dir |-> "anthology", stem |-> "P1"], [dir |-> "anthology", stem |-> "P2"]}
StatusOK == 200
Statuses == {StatusOK, 404}

\* What the origin serves: the document of the URL with status 200, an error
\* page with any other status.
Body(u, s) == IF s = StatusOK THEN <<"document", u.stem>> ELSE <<"error page">>

\* Path(url).stem (line 82).
Stem(u) == u.stem

FileIds == {Stem(u) : u \in Urls}
\* output_dir_path / f"{file_id}-{title_format}.pdf" (line 84).
OutputFn(fid, t) == [id |-> fid, name |-> format_title(t)]
Paths == {OutputFn(f, ReplaceSlash(t)) : f \in FileIds, t \in Titles}

\* A local that no statement has assigned yet.
UnboundTitle == <<"UNBOUND">>
UnboundId == "UNBOUND"
UnboundFn == [id |-> "UNBOUND", name |-> << >>]
NoResponse == [status_code |-> 0, content |-> << >>]
NoBadge == [text |-> "UNBOUND", href |-> [dir |-> "UNBOUND", stem |-> "UNBOUND"]]

SeqsUpTo(S, n) == UNION {[1..k -> S] : k \in 0..n}

VARIABLES
    pc,              \* the statement download() is at
    exc,             \* the exception being handled or propagating ("none")
    fatalAt,         \* the statement whose exception left download() ("none")
    verbose,         \* argument of download()
    nBlocks,         \* len(p_elem_list)
    i,               \* position of p_elem in p_elem_list (0 before the loop)
    title_elem_list, \* the texts of the title links of the block
    nBadges,         \* len(pdf_elem_list)
    j,               \* position of pdf_elem in pdf_elem_list
    pdf_elem,        \* the badge the loop of line 77 is at: [text, href]
    pdfSeen,         \* a badge of the current block had the text "pdf"
    title, file_id, output_fn, response,   \* locals
    titles,          \* the dict file_id -> title
    disk,            \* the PDF files of the output directory: path -> content
    errorLog,        \* error.log: "absent", or "trace" once a trace was written
    meta,            \* meta.json: its content, as a sequence of at most one dict
    quits,           \* how often driver.quit() was called
    slept,           \* time.sleep ran since the current block started
    getSinceSleep,   \* requests.get was called since time.sleep last ran
    outcome          \* what lines 85-92 did for the current badge ("none")

locals == <<title, file_id, output_fn, response>>
blockv == <<nBlocks, i, title_elem_list, nBadges, j, pdf_elem, pdfSeen>>
files == <<titles, disk, errorLog, meta>>
obs == <<quits, slept, getSinceSleep, outcome>>
vars == <<pc, exc, fatalAt, verbose, blockv, locals, files, obs>>

EmptyMap == [x \in {} |-> x]

\* What an earlier run may have left in the output directory: nothing, or
\* one of the PDF files this run may name.
OldDisks == {EmptyMap} \cup {[q \in {p} |-> <<"old">>] : p \in Paths}

\* The state once ACLAnthologyDownloader(headless) has returned (lines 42-47)
\* and download() is entered (lines 49-54); the output directory may hold
\* PDF files of an earlier run.
Init ==
    /\ pc = "get_page"
    /\ exc = "none"
    /\ fatalAt = "none"
    /\ verbose \in BOOLEAN
    /\ nBlocks = 0
    /\ i = 0
    /\ title_elem_list = << >>
    /\ nBadges = 0
    /\ j = 0
    /\ pdf_elem = NoBadge
    /\ pdfSeen = FALSE
    /\ title = UnboundTitle
    /\ file_id = UnboundId
    /\ output_fn = UnboundFn
    /\ response = NoResponse
    /\ titles = EmptyMap
    /\ disk \in OldDisks
    /\ errorLog = "absent"
    /\ meta = << >>
    /\ quits = 0
    /\ slept = FALSE
    /\ getSinceSleep = FALSE
    /\ outcome = "none"

\* An exception raised inside the try block of the loop (lines 64-95) goes to
\* the except clauses (lines 96-100).
Raise(kind) == pc' = "except" /\ exc' = kind

\* An exception raised outside the try block leaves download() (and the script).
Abort(at, kind) == pc' = "aborted" /\ exc' = kind /\ fatalAt' = at

\* Exceptions a WebDriver command may raise.
DriverErrors == {"TimeoutException", "WebDriverException"}

\* self.driver.get(url) (line 55).
GetPage ==
    /\ pc = "get_page"
    /\ \/ pc' = "wait" /\ UNCHANGED <<exc, fatalAt>>
       \/ \E k \in DriverErrors : Abort("get_page", k)
    /\ UNCHANGED <<verbose, blockv, locals, files, obs>>

\* if bottom_link is not None: WebDriverWait(...).until(...) (lines 56-59);
\* until() raises TimeoutException when the anchor does not appear in time.
WaitBottom ==
    /\ pc = "wait"
    /\ \E bottom_link \in BOOLEAN :
          \/ /\ ~bottom_link
             /\ pc' = "find_blocks"
             /\ UNCHANGED <<exc, fatalAt>>
          \/ /\ bottom_link
             /\ pc' = "find_blocks"
             /\ UNCHANGED <<exc, fatalAt>>
          \/ /\ bottom_link
             /\ Abort("wait", "TimeoutException")
    /\ UNCHANGED <<verbose, blockv, locals, files, obs>>

\* p_elem_list = self.driver.find_elements(...); titles = {} (lines 61-62).
FindBlocks ==
    /\ pc = "find_blocks"
    /\ \/ /\ \E n \in 0..MaxBlocks : nBlocks' = n
          /\ pc' = "for_p"
          /\ UNCHANGED <<exc, fatalAt>>
       \/ /\ Abort("find_blocks", "WebDriverException")
          /\ UNCHANGED nBlocks
    /\ UNCHANGED <<verbose, i, title_elem_list, nBadges, j, pdf_elem, pdfSeen, locals,
                   files, obs>>

\* for p_elem in p_elem_list: (line 63).  Python keeps title_elem_list,
\* pdf_elem_list, pdf_elem, output_fn and response from the block before, but
\* each is assigned again (lines 65, 73, 77, 84, 86) before it is next read, so
\* the model forgets them on entering a block; title and file_id, which are
\* read again, are kept.
ForP ==
    /\ pc = "for_p"
    /\ \/ /\ i < nBlocks
          /\ i' = i + 1
          /\ pc' = "find_title"
          /\ slept' = FALSE
          /\ title_elem_list' = << >>
          /\ nBadges' = 0
          /\ j' = 0
          /\ pdf_elem' = NoBadge
          /\ pdfSeen' = FALSE
          /\ output_fn' = UnboundFn
          /\ response' = NoResponse
          /\ outcome' = "none"
       \/ /\ i >= nBlocks
          /\ pc' = "dump_meta"
          /\ UNCHANGED <<i, slept, title_elem_list, nBadges, j, pdf_elem, pdfSeen,
                         output_fn, response, outcome>>
    /\ UNCHANGED <<exc, fatalAt, verbose, nBlocks, title, file_id, files, quits,
                   getSinceSleep>>

\* The title after the loop over title_elem_list (lines 68-71): each element
\* assigns title, so the last one stays; no element leaves title as it was.
TitleAfter(old, elems) ==
    IF elems = << >> THEN old ELSE ReplaceSlash(elems[Len(elems)])

\* title_elem_list = p_elem.find_elements(...) and the loop over it (lines 65-71).
FindTitle ==
    /\ pc = "find_title"
    /\ \/ /\ \E l \in SeqsUpTo(Titles, MaxTitleElems) :
                /\ title_elem_list' = l
                /\ title' = TitleAfter(title, l)
          /\ pc' = "find_pdf"
          /\ UNCHANGED exc
       \/ /\ \E k \in DriverErrors : Raise(k)
          /\ UNCHANGED <<title_elem_list, title>>
    /\ UNCHANGED <<fatalAt, verbose, nBlocks, i, nBadges, j, pdf_elem, pdfSeen, file_id,
                   output_fn, response, files, obs>>

\* The badges a block may hold: a "pdf" badge of any PDF link, and a badge of
\* another format, whose href download() never reads.
Badges == [text : {"pdf"}, href : Urls]
            \cup {[text |-> "bib", href |-> [dir |-> "anthology", stem |-> "P1"]]}

\* pdf_elem_list = p_elem.find_elements(...) (lines 73-76): a list of element
\* handles; the text and href of each are read from the page at lines 78-79.
FindPdf ==
    /\ pc = "find_pdf"
    /\ \/ /\ \E n \in 0..MaxBadges : nBadges' = n
          /\ pc' = "for_pdf"
          /\ UNCHANGED exc
       \/ /\ \E k \in DriverErrors : Raise(k)
          /\ UNCHANGED nBadges
    /\ UNCHANGED <<fatalAt, verbose, nBlocks, i, title_elem_list, j, pdf_elem, pdfSeen,
                   locals, files, obs>>

\* for pdf_elem in pdf_elem_list: if pdf_elem.text == "pdf": (lines 77-78).
\* output_fn and response of the badge before are forgotten as in ForP.
ForPdf ==
    /\ pc = "for_pdf"
    /\ \/ /\ j < nBadges
          /\ j' = j + 1
          /\ outcome' = "none"
          /\ output_fn' = UnboundFn
          /\ response' = NoResponse
          /\ \/ \E b \in Badges :
                   /\ pdf_elem' = b
                   /\ pdfSeen' = (pdfSeen \/ b.text = "pdf")
                   /\ pc' = IF b.text = "pdf" THEN "path" ELSE "sleep"
                   /\ UNCHANGED exc
             \/ /\ \E k \in DriverErrors : Raise(k)
                /\ pdf_elem' = NoBadge
                /\ UNCHANGED pdfSeen
       \/ /\ j >= nBadges
          /\ pc' = "for_p"
          /\ UNCHANGED <<j, pdf_elem, pdfSeen, exc, outcome, output_fn, response>>
    /\ UNCHANGED <<fatalAt, verbose, nBlocks, i, title_elem_list, nBadges,
                   title, file_id, files, quits, slept, getSinceSleep>>

\* url = pdf_elem.get_attribute("href"); if verbose: print(f"downloading
\* {title} ..."); file_id = Path(url).stem; title_format =
\* self.format_title(title); output_fn = ... (lines 79-84).
\* Reading the unassigned local title raises NameError (UnboundLocalError):
\* at line 81 when verbose, else at line 83, after file_id was assigned.
ComputePath ==
    /\ pc = "path"
    /\ \/ /\ \E k \in DriverErrors : Raise(k)
          /\ UNCHANGED <<file_id, output_fn>>
       \/ /\ title = UnboundTitle
          /\ verbose
          /\ Raise("NameError")
          /\ UNCHANGED <<file_id, output_fn>>
       \/ /\ title = UnboundTitle
          /\ ~verbose
          /\ file_id' = Stem(pdf_elem.href)
          /\ Raise("NameError")
          /\ UNCHANGED output_fn
       \/ /\ title # UnboundTitle
          /\ file_id' = Stem(pdf_elem.href)
          /\ output_fn' = OutputFn(Stem(pdf_elem.href), title)
          /\ pc' = "exists"
          /\ UNCHANGED exc
    /\ UNCHANGED <<fatalAt, verbose, blockv, title, response, files, obs>>

\* NeedsFetch without the test of line 85: every pdf link is fetched.
NeedsFetch_Always(fn, d) == TRUE

\* not output_fn.exists() (line 85).
NeedsFetch(fn, d) == fn \notin DOMAIN d

\* if not output_fn.exists(): (line 85).
CheckExists ==
    /\ pc = "exists"
    /\ \/ /\ NeedsFetch(output_fn, disk)
          /\ pc' = "get"
          /\ UNCHANGED outcome
       \/ /\ ~NeedsFetch(output_fn, disk)
          /\ pc' = "sleep"
          /\ outcome' = "existed"
    /\ UNCHANGED <<exc, fatalAt, verbose, blockv, locals, files, quits, slept,
                   getSinceSleep>>

\* response = requests.get(url) (line 86).
Get ==
    /\ pc = "get"
    /\ getSinceSleep' = TRUE
    /\ \/ /\ \E s \in Statuses :
                response' = [status_code |-> s, content |-> Body(pdf_elem.href, s)]
          /\ pc' = "status"
          /\ UNCHANGED exc
       \/ /\ Raise("RequestException")
          /\ UNCHANGED response
    /\ UNCHANGED <<fatalAt, verbose, blockv, title, file_id, output_fn, files,
                   quits, slept, outcome>>

\* ShouldWrite without the test of line 88: every response body is written.
ShouldWrite_Always(resp) == TRUE

\* response.status_code == 200 (line 88).
ShouldWrite(resp) == resp.status_code = StatusOK

\* AfterFailedDownload with a continue after the print of line 92.
AfterFailedDownload_Continue == "for_pdf"

\* Where control goes after the print of line 92: on to line 93.
AfterFailedDownload == "sleep"

\* d[k] = v on a dict (line 95); a file written anew at a path (lines 89-90).
Put(m, k, v) == (k :> v) @@ m

\* if response.status_code == 200: with open(output_fn, "wb") as f:
\* f.write(response.content), else the print (lines 88-92).  The write may
\* raise OSError; the model takes the failure at open(), before the file
\* exists.
HandleResponse ==
    /\ pc = "status"
    /\ \/ /\ ShouldWrite(response)
          /\ disk' = Put(disk, output_fn, response.content)
          /\ outcome' = "written"
          /\ pc' = "sleep"
          /\ UNCHANGED exc
       \/ /\ ShouldWrite(response)
          /\ UNCHANGED disk
          /\ outcome' = "write failed"
          /\ Raise("OSError")
       \/ /\ ~ShouldWrite(response)
          /\ outcome' = "not written"
          /\ pc' = AfterFailedDownload
          /\ UNCHANGED <<disk, exc>>
    /\ UNCHANGED <<fatalAt, verbose, blockv, locals, titles, errorLog, meta, quits,
                   slept, getSinceSleep>>

\* time.sleep(1) (line 93): once for every element of pdf_elem_list.
Sleep ==
    /\ pc = "sleep"
    /\ slept' = TRUE
    /\ getSinceSleep' = FALSE
    /\ pc' = "record"
    /\ UNCHANGED <<exc, fatalAt, verbose, blockv, locals, files, quits, outcome>>

\* titles[file_id] = title (line 95): once for every element of pdf_elem_list;
\* an unassigned title or file_id raises NameError.
Record ==
    /\ pc = "record"
    /\ \/ /\ title # UnboundTitle /\ file_id # UnboundId
          /\ titles' = Put(titles, file_id, title)
          /\ pc' = "for_pdf"
          /\ UNCHANGED exc
       \/ /\ title = UnboundTitle \/ file_id = UnboundId
          /\ Raise("NameError")
          /\ UNCHANGED titles
    /\ UNCHANGED <<fatalAt, verbose, blockv, locals, disk, errorLog, meta, obs>>

\* except TimeoutException: print(...) (lines 96-97); except: with
\* open(output_dir_path / "error.log", "w") as f: ... (lines 98-100), whose
\* open() or write() may itself raise, outside any try.
Except ==
    /\ pc = "except"
    /\ \/ /\ exc = "TimeoutException"
          /\ pc' = "for_p"
          /\ exc' = "none"
          /\ UNCHANGED <<fatalAt, errorLog>>
       \/ /\ exc # "TimeoutException"
          /\ errorLog' = "trace"
          /\ pc' = "for_p"
          /\ exc' = "none"
          /\ UNCHANGED fatalAt
       \/ /\ exc # "TimeoutException"
          /\ Abort("except", "OSError")
          /\ UNCHANGED errorLog
    /\ UNCHANGED <<verbose, blockv, locals, titles, disk, meta, obs>>

\* json.dump(titles, open(output_dir_path / "meta.json", "w"), ...) (line 101).
DumpMeta ==
    /\ pc = "dump_meta"
    /\ \/ /\ meta' = Append(meta, titles)
          /\ pc' = "quit"
          /\ UNCHANGED <<exc, fatalAt>>
       \/ /\ Abort("dump_meta", "OSError")
          /\ UNCHANGED meta
    /\ UNCHANGED <<verbose, blockv, locals, titles, disk, errorLog, obs>>

\* print("download finished."); self.driver.quit() (lines 103-104).
Quit ==
    /\ pc = "quit"
    /\ quits' = quits + 1
    /\ pc' = "done"
    /\ UNCHANGED <<exc, fatalAt, verbose, blockv, locals, files, slept,
                   getSinceSleep, outcome>>

Next ==
    \/ GetPage
    \/ WaitBottom
    \/ FindBlocks
    \/ ForP
    \/ FindTitle
    \/ FindPdf
    \/ ForPdf
    \/ ComputePath
    \/ CheckExists
    \/ Get
    \/ HandleResponse
    \/ Sleep
    \/ Record
    \/ Except
    \/ DumpMeta
    \/ Quit

Spec == Init /\ [][Next]_vars

(* ------------------------------------------------------ title sanitising *)
\* The sanitisation specification: one title link whose text is any title of
\* at most MaxTitleLen characters, taken through the title loop (lines 68-71)
\* and the naming of the output file (lines 82-84).
TitleInputs == SeqsUpTo(Alphabet, MaxTitleLen)

InitTitle ==
    /\ pc = "title_loop"
    /\ exc = "none"
    /\ fatalAt = "none"
    /\ verbose = FALSE
    /\ nBlocks = 1
    /\ i = 1
    /\ title_elem_list \in {<<t>> : t \in TitleInputs}
    /\ nBadges = 1
    /\ j = 1
    /\ pdf_elem \in [text : {"pdf"}, href : Urls]
    /\ pdfSeen = TRUE
    /\ title = UnboundTitle
    /\ file_id = UnboundId
    /\ output_fn = UnboundFn
    /\ response = NoResponse
    /\ titles = EmptyMap
    /\ disk = EmptyMap
    /\ errorLog = "absent"
    /\ meta = << >>
    /\ quits = 0
    /\ slept = FALSE
    /\ getSinceSleep = FALSE
    /\ outcome = "none"

\* for title_elem in title_elem_list: title = title_elem.text; if "/" in
\* title: title = title.replace("/", "_") (lines 68-71).
TitleLoop ==
    /\ pc = "title_loop"
    /\ title' = TitleAfter(title, title_elem_list)
    /\ pc' = "title_set"
    /\ UNCHANGED <<exc, fatalAt, verbose, blockv, file_id, output_fn, response, files, obs>>

\* file_id = Path(url).stem; title_format = self.format_title(title);
\* output_fn = output_dir_path / f"{file_id}-{title_format}.pdf" (lines 82-84).
NameOutput ==
    /\ pc = "title_set"
    /\ file_id' = Stem(pdf_elem.href)
    /\ output_fn' = OutputFn(Stem(pdf_elem.href), title)
    /\ pc' = "named"
    /\ UNCHANGED <<exc, fatalAt, verbose, blockv, title, response, files, obs>>

NextTitle ==
    \/ TitleLoop
    \/ NameOutput

SpecTitle == InitTitle /\ [][NextTitle]_vars

(* ---------------------------------------------------------------- claims *)
Terminated == pc \in {"done", "aborted"}

\* The keys of the dict titles.
Keys == DOMAIN titles

\* No statement removes a key from titles, and meta.json, once written, holds
\* the dict as it is.
IndexKept ==
    /\ [][Keys \subseteq DOMAIN titles']_vars
    /\ [](meta # << >> => meta = <<titles>>)

\* The statements after line 95 of the current badge.
AfterRecord == pc \in {"for_pdf", "for_p", "dump_meta", "quit", "done"}

\* C1: a pdf link whose output file exists when line 85 tests it is not
\* fetched (requests.get runs only while the file is absent), it goes on to
\* lines 93-95 without an exception, and its file id is a key of titles from
\* line 95 on, hence of meta.json when that is written.
C1_ExistingFileSkipped ==
    /\ [](pc = "get" => output_fn \notin DOMAIN disk)
    /\ [](outcome = "existed" =>
            /\ output_fn \in DOMAIN disk
            /\ response = NoResponse
            /\ pc \in {"sleep", "record"} \/ AfterRecord \/ fatalAt = "dump_meta"
            /\ (AfterRecord => file_id \in Keys /\ titles[file_id] = title))
    /\ IndexKept

\* C1 witness: the run ended after its last pdf link was skipped because the
\* file existed, and meta.json holds the link's file id.
C1_Witness ==
    /\ pc = "done"
    /\ outcome = "existed"
    /\ file_id \in DOMAIN meta[1]

NoPdfBlockEnd ==
    /\ pc \in {"sleep", "record", "except"}
    /\ title_elem_list # << >>
    /\ j = nBadges
    /\ ~pdfSeen
    /\ exc \in {"none", "NameError"}

\* C3 (as claimed): in a block whose title query found a title and none of
\* whose badges has the text "pdf", no step from the last badge's pause on
\* changes titles or a PDF file, records an error or raises.
C3_NoPdfNoEntry ==
    [][NoPdfBlockEnd =>
         /\ titles' = titles
         /\ disk' = disk
         /\ errorLog' = errorLog
         /\ pc' \notin {"except", "aborted"}]_vars

\* C4 (as claimed): when download() has ended, normally or by an exception,
\* driver.quit() was called exactly once.
C4_QuitOnEveryExit == Terminated => quits = 1

\* C5 (as claimed): a timeout of the wait for the bottom link does not end
\* download().
C5_WaitTimeoutRecoverable == ~(pc = "aborted" /\ fatalAt = "wait")

\* C6 (as claimed): once the blocks were obtained, and unless writing
\* meta.json itself fails, download() ends only after every block was
\* processed and meta.json was written once.
C6_MetaAfterAllBlocks ==
    (Terminated /\ fatalAt \notin {"get_page", "wait", "find_blocks", "dump_meta"}) =>
        /\ i = nBlocks
        /\ Len(meta) = 1

\* C7 (as claimed): the file name made from a title that contains "/" holds
\* no "/".
C7_NoSlashInName ==
    (pc = "named" /\ Contains(title_elem_list[1], "/")) => ~Contains(output_fn.name, "/")

\* C8 (as claimed): a block in which a pdf link was taken up ends only after
\* time.sleep ran in it, and requests.get is never called twice without
\* time.sleep between the calls.
C8_PauseAfterEveryEntry ==
    /\ (pc = "for_p" /\ i >= 1 /\ pdfSeen) => slept
    /\ pc = "get" => ~getSinceSleep

\* C9 (as claimed): line 95 is reached for a pdf link only after its output
\* file was found to exist or was written.
C9_FailedDownloadExcluded ==
    (pc = "record" /\ pdf_elem.text = "pdf") => outcome \in {"existed", "written"}

\* C9 (amended): a pdf link whose fetch returned a status other than 200 goes
\* on to line 95 all the same, and its file id is a key of titles from then
\* on, hence of meta.json when that is written.
C9_FailedDownloadIndexed ==
    /\ [](outcome = "not written" =>
            /\ pc \in {"sleep", "record"} \/ AfterRecord \/ fatalAt = "dump_meta"
            /\ (AfterRecord => file_id \in Keys /\ titles[file_id] = title))
    /\ IndexKept

\* C9 witness: the run ended after its last pdf link got a status other than
\* 200, and meta.json holds the link's file id although no file was written.
C9_Witness ==
    /\ pc = "done"
    /\ outcome = "not written"
    /\ file_id \in DOMAIN meta[1]
    /\ output_fn \notin DOMAIN disk

\* C10 (as claimed): the title a pdf link's output file is named after is the
\* title text of the link's own block, after the replacement of "/".
C10_TitleOfSameBlock ==
    output_fn # UnboundFn =>
        /\ title_elem_list # << >>
        /\ title = ReplaceSlash(title_elem_list[Len(title_elem_list)])
        /\ output_fn.name = format_title(title)

====
